---- MODULE Spec2Model ----
(***************************************************************************)
(* Model of shift_dev/io/decompress_videos.py: the driver (main), the two  *)
(* converters (convert_to_folder, convert_to_tar) and the frame extractor  *)
(* (convert_from_tar), running over one shared file system.                *)
(*                                                                         *)
(* Strings are sequences of tokens.  A token is either a separator ("/"),  *)
(* a suffix beginning with a dot (".mp4", ".txt", ".tar", ".jpg"), a digit *)
(* or a plain word without dot or slash.  The string operations of the     *)
(* source (endswith, replace, basename, split, join, format) are computed  *)
(* on these sequences.                                                     *)
(***************************************************************************)
EXTENDS Integers, Sequences, FiniteSets, TLC

\* ------------------------------------------------------------------ bounds
MaxFrames == 2     \* frames of the longest video
MaxJobs == 2       \* largest value of --jobs
MaxFaults == 1     \* operations the environment fails in one run

\* ------------------------------------------------------- string operations
DotTokens == {".mp4", ".txt", ".tar", ".jpg"}

Digits == <<"0", "1", "2", "3", "4", "5", "6", "7", "8", "9">>

FrameWidth == 8

\* s.endswith(tok)
EndsWith(s, tok) == Len(s) > 0 /\ s[Len(s)] = tok

\* s.replace(old, new): every occurrence of the token old becomes new
RECURSIVE Replace(_, _, _)
Replace(s, old, new) ==
    IF s = <<>> THEN <<>>
    ELSE (IF Head(s) = old THEN new ELSE <<Head(s)>>) \o Replace(Tail(s), old, new)

\* os.path.basename(p): what follows the last "/"
RECURSIVE Basename(_)
Basename(p) ==
    IF \E i \in 1..Len(p) : p[i] = "/"
    THEN Basename(Tail(p))
    ELSE p

\* s.split('.')[0]: what precedes the first dot
RECURSIVE SplitDot0(_)
SplitDot0(s) ==
    IF s = <<>> \/ Head(s) \in DotTokens THEN <<>>
    ELSE <<Head(s)>> \o SplitDot0(Tail(s))

\* os.path.join(a, b)
Join(a, b) ==
    IF b # <<>> /\ Head(b) = "/" THEN b
    ELSE IF a = <<>> \/ EndsWith(a, "/") THEN a \o b
    ELSE a \o <<"/">> \o b

\* the decimal digits of n, most significant first
RECURSIVE Decimal(_)
Decimal(n) ==
    IF n < 10 THEN <<Digits[n + 1]>>
    ELSE Decimal(n \div 10) \o <<Digits[(n % 10) + 1]>>

\* "{:08d}".format(n): left-padded with zeros to at least FrameWidth digits
RECURSIVE ZeroPad(_, _)
ZeroPad(d, w) == IF Len(d) >= w THEN d ELSE ZeroPad(<<"0">> \o d, w)

FrameFileName(frame_id) == ZeroPad(Decimal(frame_id), FrameWidth) \o <<".jpg">>

\* ------------------------------------------------------------- file system
\* A file system maps each existing path to <<kind, data>>:
\*   <<"dir", <<>>>>                 a directory
\*   <<"tar", members>>              an archive, members a sequence of <<name, video>>
\*   <<"junk", <<>>>>                a file that is no archive
\*   <<"video", video>>              a video file, video = <<id, frames, valid>>
\*   <<"jpg", <<id, k>>>>            the image of frame k of the video id
Dir == <<"dir", <<>>>>

Exists(f, p) == p \in DOMAIN f

IsKind(f, p, k) == p \in DOMAIN f /\ f[p][1] = k

IsPrefix(p, q) == Len(p) <= Len(q) /\ SubSeq(q, 1, Len(p)) = p

\* the path without a trailing separator
Norm(p) == IF Len(p) > 1 /\ EndsWith(p, "/") THEN SubSeq(p, 1, Len(p) - 1) ELSE p

\* q lies strictly below the directory d
Below(d, q) == IsPrefix(Norm(d) \o <<"/">>, q) /\ Len(q) > Len(Norm(d)) + 1

\* the directories on the way to p, p excluded
Parents(p) == {SubSeq(p, 1, i - 1) : i \in {j \in 2..Len(p) : p[j] = "/"}}

\* os.makedirs(p, exist_ok=True) succeeds unless a file is in the way
CanMakeDirs(f, p) ==
    \A d \in Parents(p) \cup {Norm(p)} : Exists(f, d) => IsKind(f, d, "dir")

\* the parents are made, the directory itself is not
MakeDirs_ParentsOnly(f, p) ==
    [q \in DOMAIN f \cup Parents(Norm(p)) |-> IF q \in DOMAIN f THEN f[q] ELSE Dir]

\* os.makedirs(p, exist_ok=True)
MakeDirs(f, p) ==
    [q \in DOMAIN f \cup Parents(p) \cup {Norm(p)} |->
        IF q \in DOMAIN f THEN f[q] ELSE Dir]

\* open(p, "wb") and write: the parent directory must exist
WriteFile(f, p, v) == [q \in DOMAIN f \cup {p} |-> IF q = p THEN v ELSE f[q]]

\* os.remove(p)
Remove(f, p) == [q \in DOMAIN f \ {p} |-> f[q]]

\* shutil.rmtree(d)
RmTree(f, d) == [q \in {r \in DOMAIN f : r # Norm(d) /\ ~Below(d, r)} |-> f[q]]

\* the regular files of the tree d, by their path relative to d
TreeFiles(f, d) ==
    {<<SubSeq(q, Len(Norm(d)) + 2, Len(q)), f[q]>> :
        q \in {r \in DOMAIN f : Below(d, r) /\ ~IsKind(f, r, "dir")}}

\* ------------------------------------------------------------------ inputs
\* --tmp_dir, the scratch root (the default ends with a separator)
tmp_dir == <<"tmp", "/">>

\* the archives that may be on disk: x.tar and y.tar
ArchiveWords == <<"x", "y">>

NumArchives == Len(ArchiveWords)

ArchivePath(i) == <<ArchiveWords[i], ".tar">>

NameA == <<"a", "/", "clip", ".mp4">>
NameB == <<"b", "/", "clip", ".mp4">>
NameBad == <<"bad", ".mp4">>
NameTxt == <<"readme", ".txt">>

\* what the decoder finds in the member `name` of the archive `word`:
\* <<id, number of frames, whether the decoder can open it>>
VideoOf(word, name) ==
    <<<<word, name>>,
      IF name = NameA THEN MaxFrames ELSE IF name = NameB THEN MaxFrames - 1 ELSE 0,
      name \in {NameA, NameB}>>

\* the member lists an archive on disk may have
Listings == {<<NameA, NameTxt, NameB>>, <<NameBad, NameA>>, <<NameTxt>>}

TarOf(word, listing) ==
    <<"tar", [k \in 1..Len(listing) |-> <<listing[k], VideoOf(word, listing[k])>>]>>

\* what a file matched by the pattern may be: an archive, or no archive at all
ArchiveFiles(word) == {TarOf(word, l) : l \in Listings} \cup {<<"junk", <<>>>>}

\* the disks the program may start on: the first n archives, in any state
Disks ==
    UNION {
        {[p \in {ArchivePath(i) : i \in 1..n} |-> c[p]] :
            c \in [{ArchivePath(i) : i \in 1..n} ->
                     UNION {ArchiveFiles(ArchiveWords[i]) : i \in 1..n}]}
        : n \in 0..NumArchives}

WellFormedDisk(d) ==
    \A i \in 1..NumArchives :
        ArchivePath(i) \in DOMAIN d => d[ArchivePath(i)] \in ArchiveFiles(ArchiveWords[i])

\* the output archive an earlier run in tar mode has left next to x.tar: its
\* name ends in .tar as well, so the pattern matches it
LeftoverPath == <<ArchiveWords[1], "_decompressed", ".tar">>

Leftover == <<"tar", <<<<<<"old">>, {}>>>>>>

\* the disks that hold x.tar and the output of the earlier run over it,
\* alone or next to a y.tar without videos
LeftoverDisks ==
    UNION {
        {[p \in {ArchivePath(1), LeftoverPath} \cup more |->
            IF p = LeftoverPath THEN Leftover
            ELSE IF p = ArchivePath(1) THEN c
            ELSE TarOf(ArchiveWords[2], <<NameTxt>>)] :
            c \in ArchiveFiles(ArchiveWords[1])}
        : more \in {{}, {ArchivePath(2)}}}

\* the command lines: the file pattern, -m and -j
Patterns == {<<"*", ".tar">>, <<"*", ".mp4">>}

Modes == {"folder", "tar"}

\* ------------------------------------------------------------------- state
VARIABLES
    pattern,    \* args.files
    mode,       \* args.mode
    jobs,       \* args.jobs
    fs,         \* the file system
    main_pc,    \* where main is: "start", "run", "done", "exit", "raised"
    files,      \* the result of glob.glob
    job,        \* job[i]: the call convert(files[i], tmp_dir); err is the
                \* exception it raised
    log,        \* the calls of logger.error and logger.info, as a set
    ops,        \* history: the file operations performed, <<op, i, name>>
    faults      \* history: how many operations the environment has failed

vars == <<pattern, mode, jobs, fs, main_pc, files, job, log, ops, faults>>

NoVideo == <<>>

NewJob ==
    [pc |-> "queued", file_list |-> <<>>, idx |-> 0, frame_id |-> 0,
     video |-> NoVideo, reader_open |-> FALSE, writer_open |-> FALSE, err |-> ""]

Init ==
    /\ pattern \in Patterns
    /\ mode \in Modes
    /\ jobs \in 1..MaxJobs
    /\ fs \in {d \in Disks : WellFormedDisk(d)} \cup LeftoverDisks
    /\ main_pc = "start"
    /\ files = <<>>
    /\ job = <<>>
    /\ log = {}
    /\ ops = {}
    /\ faults = 0

\* ------------------------------------------------------------------ driver
\* how a call of convert ends: it returns ("done", or "failed" after logging
\* that the archive cannot be opened) or it raises
Returned == {"done", "failed"}

Terminal == Returned \cup {"raised"}

InFlight == {"open", "loop", "extract", "capture", "read", "release", "add", "rmtree", "close"}

Running == {i \in DOMAIN job : job[i].pc \in InFlight}

\* glob.glob(args.files, recursive=True): the files the pattern matches
Matches(f) == {p \in DOMAIN f : EndsWith(p, ".tar") /\ ~IsKind(f, p, "dir")}

Orderings(S) ==
    {s \in [1..Cardinality(S) -> S] : \A i, j \in 1..Cardinality(S) : s[i] = s[j] => i = j}

\* the order in which glob lists them is arbitrary.  Disks holds every disk
\* together with the one that has the archives' names exchanged, so listing
\* x.tar and y.tar in the order of ArchiveWords covers every order of the
\* two; every other pair of files is listed in both orders.
Glob(f) ==
    {s \in Orderings(Matches(f)) :
        \A i, j \in 1..Len(s) :
            (i < j) => ~\E a, b \in 1..NumArchives :
                           a < b /\ s[i] = ArchivePath(b) /\ s[j] = ArchivePath(a)}

\* main, lines 115-123: the pattern check, the glob, the two log lines and
\* os.makedirs(args.tmp_dir, exist_ok=True)
Main_Setup ==
    /\ main_pc = "start"
    /\ IF ~EndsWith(pattern, ".tar")
       THEN /\ log' = log \cup {<<"error", "File pattern must end with '.tar'!", 0, 0>>}
            /\ main_pc' = "exit"
            /\ UNCHANGED <<files, job, fs>>
       ELSE /\ files' \in Glob(fs)
            /\ log' = log \cup {<<"info", "Files to convert", Len(files'), 0>>}
            /\ fs' = MakeDirs(fs, tmp_dir)
            /\ job' = [i \in 1..Len(files') |-> NewJob]
            /\ main_pc' = "run"
    /\ UNCHANGED <<pattern, mode, jobs, ops, faults>>

\* main, lines 132-134: the next call convert(f, args.tmp_dir) of the loop
Seq_Call(i) ==
    /\ main_pc = "run"
    /\ jobs <= 1
    /\ job[i].pc = "queued"
    /\ \A j \in 1..(i - 1) : job[j].pc \in Returned
    /\ job' = [job EXCEPT ![i].pc = "open"]
    /\ log' = log \cup {<<"info", "Processing", i, 0>>}
    /\ UNCHANGED <<pattern, mode, jobs, fs, main_pc, files, ops, faults>>

\* main, lines 132-134: the loop ends, or a call raised and main raises with it
Seq_End ==
    /\ main_pc = "run"
    /\ jobs <= 1
    /\ \/ /\ \A i \in DOMAIN job : job[i].pc \in Returned
          /\ main_pc' = "done"
       \/ /\ \E i \in DOMAIN job : job[i].pc = "raised"
          /\ main_pc' = "raised"
    /\ UNCHANGED <<pattern, mode, jobs, fs, files, job, log, ops, faults>>

\* mp.Pool(args.jobs), line 126: an idle worker takes the next task of imap
Pool_Take(i) ==
    /\ main_pc = "run"
    /\ jobs > 1
    /\ job[i].pc = "queued"
    /\ \A j \in 1..(i - 1) : job[j].pc # "queued"
    /\ Cardinality(Running) < jobs
    /\ job' = [job EXCEPT ![i].pc = "open"]
    /\ UNCHANGED <<pattern, mode, jobs, fs, main_pc, files, log, ops, faults>>

\* list(pool.imap(...)), line 127: the parent takes the results in task
\* order, so it has taken those of the leading calls that have returned
Collected ==
    Cardinality({i \in DOMAIN job : \A j \in 1..i : job[j].pc \in Returned})

\* line 127: the next result in task order is that of a call that raised;
\* it is raised again in the parent, and leaving the with block terminates
\* the workers
Pool_Result ==
    /\ main_pc = "run"
    /\ jobs > 1
    /\ Collected < Len(files)
    /\ job[Collected + 1].pc = "raised"
    /\ main_pc' = "raised"
    /\ job' = [i \in DOMAIN job |->
                 IF job[i].pc \in InFlight THEN [job[i] EXCEPT !.pc = "killed"]
                 ELSE job[i]]
    /\ UNCHANGED <<pattern, mode, jobs, fs, files, log, ops, faults>>

\* line 127: every result taken, the with block is left
Pool_End ==
    /\ main_pc = "run"
    /\ jobs > 1
    /\ Collected = Len(files)
    /\ main_pc' = "done"
    /\ UNCHANGED <<pattern, mode, jobs, fs, files, job, log, ops, faults>>

\* ----------------------------------------------- archive reader and writer
\* TarArchiveReader(path): the file must be an archive
Reader_CanOpen(f, path) == IsKind(f, path, "tar")

\* TarArchiveReader.get_list(): the member names, in archive order
Reader_GetList(f, path) == [k \in 1..Len(f[path][2]) |-> f[path][2][k][1]]

Reader_Has(f, path, name) ==
    IsKind(f, path, "tar") /\ \E k \in 1..Len(f[path][2]) : f[path][2][k][1] = name

Reader_Member(f, path, name) ==
    f[path][2][CHOOSE k \in 1..Len(f[path][2]) : f[path][2][k][1] = name][2]

\* TarArchiveReader.extract_file(name, dest): the member is written to
\* dest/name, the directories of the name are created on the way
Reader_ExtractFile(f, path, name, dest) ==
    WriteFile([q \in DOMAIN f \cup Parents(Join(dest, name)) |->
                  IF q \in DOMAIN f THEN f[q] ELSE Dir],
              Join(dest, name), <<"video", Reader_Member(f, path, name)>>)

\* TarArchiveWriter(path): a new, empty archive at path
Writer_Create(f, path) == WriteFile(f, path, <<"tar", <<>>>>)

\* TarArchiveWriter.add_file(src, arcname): one entry arcname holding the
\* files of the directory src
Writer_AddFile(f, path, src, arcname) ==
    WriteFile(f, path, <<"tar", Append(f[path][2], <<arcname, TreeFiles(f, src)>>)>>)

\* ------------------------------------------------------------- converters
\* "Cannot open {}. ".format(tar_filepath) + e, lines 26 and 56: str + str is
\* a str, str + Exception raises TypeError
StrPlus(left, right) == IF left = "str" /\ right = "str" THEN "str" ELSE "TypeError"

\* the output archive written over the input archive
WriterPath_InPlace(tar_filepath) == tar_filepath

\* line 29
WriterPath(tar_filepath) == Replace(tar_filepath, ".tar", <<"_decompressed", ".tar">>)

\* lines 38 and 44
ArcName(f) == SplitDot0(Basename(f))

\* lines 36-39 (convert_to_tar) and 64-66 (convert_to_folder)
OutputDir(m, tar_filepath, f) ==
    IF m = "tar"
    THEN Join(Replace(tar_filepath, ".tar", <<"_tmp">>), ArcName(f))
    ELSE Join(Replace(tar_filepath, ".tar", <<>>), Replace(f, ".mp4", <<>>))

\* lines 73 and 85
StagingPath(tmp, video_name) == Join(tmp, video_name)

\* line 80
FramePath(output_dir, frame_id) == Join(output_dir, FrameFileName(frame_id))

Member(i) == job[i].file_list[job[i].idx]

\* a member with any suffix counts as a video
IsVideo_AnySuffix(f) == Len(f) > 0 /\ f[Len(f)] \in DotTokens

\* lines 35 and 63
IsVideo(f) == EndsWith(f, ".mp4")

Raise(i, e) == [job EXCEPT ![i].pc = "raised", ![i].err = e]

\* lines 23-31 and 53-59: open the archive, in tar mode create the output
\* archive, list the members
Open(i) ==
    /\ job[i].pc = "open"
    /\ IF Reader_CanOpen(fs, files[i])
       THEN /\ fs' = IF mode = "tar" THEN Writer_Create(fs, WriterPath(files[i])) ELSE fs
            /\ job' = [job EXCEPT ![i].pc = "loop",
                                  ![i].reader_open = TRUE,
                                  ![i].writer_open = (mode = "tar"),
                                  ![i].file_list = Reader_GetList(fs, files[i]),
                                  ![i].idx = 1]
            /\ log' = log
       ELSE IF StrPlus("str", "Exception") = "str"
       THEN /\ log' = log \cup {<<"error", "Cannot open", i, 0>>}
            /\ job' = [job EXCEPT ![i].pc = "failed"]
            /\ fs' = fs
       ELSE /\ job' = Raise(i, "TypeError")
            /\ UNCHANGED <<log, fs>>
    /\ UNCHANGED <<pattern, mode, jobs, main_pc, files, ops, faults>>

\* lines 34-40 and 62-67: the next member; one that is no video is skipped,
\* for a video the output directory is made
Loop(i) ==
    /\ job[i].pc = "loop"
    /\ IF job[i].idx > Len(job[i].file_list)
       THEN /\ job' = [job EXCEPT ![i].pc = IF mode = "tar" THEN "close" ELSE "done"]
            /\ UNCHANGED <<fs, ops>>
       ELSE IF ~IsVideo(Member(i))
       THEN /\ job' = [job EXCEPT ![i].idx = @ + 1]
            /\ UNCHANGED <<fs, ops>>
       ELSE IF CanMakeDirs(fs, OutputDir(mode, files[i], Member(i)))
       THEN /\ fs' = MakeDirs(fs, OutputDir(mode, files[i], Member(i)))
            /\ ops' = ops \cup {<<"makedirs", i, Member(i)>>}
            /\ job' = [job EXCEPT ![i].pc = "extract"]
       ELSE /\ job' = Raise(i, "FileExistsError")
            /\ UNCHANGED <<fs, ops>>
    /\ UNCHANGED <<pattern, mode, jobs, main_pc, files, log, faults>>

\* ------------------------------------------------------- convert_from_tar
\* line 72: tar_file.extract_file(video_name, tmp_dir); it raises when the
\* member cannot be read or the write fails
Extract(i) ==
    /\ job[i].pc = "extract"
    /\ \/ /\ Reader_Has(fs, files[i], Member(i))
          /\ fs' = Reader_ExtractFile(fs, files[i], Member(i), tmp_dir)
          /\ ops' = ops \cup {<<"extract", i, Member(i)>>}
          /\ job' = [job EXCEPT ![i].pc = "capture"]
          /\ UNCHANGED faults
       \/ /\ ~Reader_Has(fs, files[i], Member(i))
          /\ job' = Raise(i, "ExtractError")
          /\ UNCHANGED <<fs, ops, faults>>
       \/ /\ faults < MaxFaults
          /\ faults' = faults + 1
          /\ job' = Raise(i, "ExtractError")
          /\ UNCHANGED <<fs, ops>>
    /\ UNCHANGED <<pattern, mode, jobs, main_pc, files, log>>

\* cv2.VideoCapture(path).isOpened(): the file is there and is a video the
\* decoder understands
CanDecode(f, path) == IsKind(f, path, "video") /\ f[path][2][3]

\* lines 73-76: open the staged file with the decoder, log when that fails
Capture(i) ==
    /\ job[i].pc = "capture"
    /\ LET path == StagingPath(tmp_dir, Member(i))
           opened == CanDecode(fs, path)
       IN /\ job' = [job EXCEPT ![i].pc = IF opened THEN "read" ELSE "release",
                                ![i].video = IF opened THEN fs[path][2] ELSE NoVideo,
                                ![i].frame_id = 0]
          /\ log' = IF opened THEN log
                    ELSE log \cup {<<"error", "Error opening video stream or file!",
                                     i, job[i].idx>>}
    /\ ops' = ops \cup {<<"decode", i, Member(i)>>}
    /\ UNCHANGED <<pattern, mode, jobs, fs, main_pc, files, faults>>

\* what the decoder reads from: the video it opened, or what another writer
\* has put at the same path since
Streams(i) ==
    {job[i].video} \cup
    (IF CanDecode(fs, StagingPath(tmp_dir, Member(i)))
     THEN {fs[StagingPath(tmp_dir, Member(i))][2]} ELSE {})

\* cv2.imwrite(path, frame) when it succeeds; it returns False, and writes
\* nothing, when it fails
ImWrite(f, path, frame) == WriteFile(f, path, <<"jpg", frame>>)

\* lines 77-83: one turn of the loop: read a frame and write it, or leave
\* the loop at the first unsuccessful read
Read(i) ==
    /\ job[i].pc = "read"
    /\ \/ \E v \in Streams(i) :
            IF job[i].frame_id < v[2]
            THEN \E written \in IF faults < MaxFaults THEN BOOLEAN ELSE {TRUE} :
                   /\ fs' = IF written
                            THEN ImWrite(fs,
                                         FramePath(OutputDir(mode, files[i], Member(i)),
                                                   job[i].frame_id),
                                         <<v[1], job[i].frame_id>>)
                            ELSE fs
                   /\ faults' = IF written THEN faults ELSE faults + 1
                   /\ job' = [job EXCEPT ![i].frame_id = @ + 1]
            ELSE /\ job' = [job EXCEPT ![i].pc = "release"]
                 /\ UNCHANGED <<fs, faults>>
       \/ /\ faults < MaxFaults
          /\ faults' = faults + 1
          /\ job' = Raise(i, "cv2.error")
          /\ UNCHANGED fs
    /\ UNCHANGED <<pattern, mode, jobs, main_pc, files, log, ops>>

\* lines 84-85: video.release() and os.remove of the staged file
Release(i) ==
    /\ job[i].pc = "release"
    /\ IF Exists(fs, StagingPath(tmp_dir, Member(i)))
       THEN /\ fs' = Remove(fs, StagingPath(tmp_dir, Member(i)))
            /\ job' = [job EXCEPT ![i].video = NoVideo,
                                  ![i].pc = IF mode = "tar" THEN "add" ELSE "loop",
                                  ![i].idx = IF mode = "tar" THEN @ ELSE @ + 1]
       ELSE /\ job' = [job EXCEPT ![i].video = NoVideo, ![i].pc = "raised",
                                  ![i].err = "FileNotFoundError"]
            /\ UNCHANGED fs
    /\ UNCHANGED <<pattern, mode, jobs, main_pc, files, log, ops, faults>>

\* ---------------------------------------------- convert_to_tar, continued
\* lines 42-45: tar_writer.add_file(output_dir, arcname)
Add(i) ==
    /\ job[i].pc = "add"
    /\ \/ /\ IsKind(fs, WriterPath(files[i]), "tar")
          /\ fs' = Writer_AddFile(fs, WriterPath(files[i]),
                                  OutputDir(mode, files[i], Member(i)), ArcName(Member(i)))
          /\ ops' = ops \cup {<<"add", i, Member(i)>>}
          /\ job' = [job EXCEPT ![i].pc = "rmtree"]
          /\ UNCHANGED faults
       \/ /\ faults < MaxFaults
          /\ faults' = faults + 1
          /\ job' = Raise(i, "WriteError")
          /\ UNCHANGED <<fs, ops>>
    /\ UNCHANGED <<pattern, mode, jobs, main_pc, files, log>>

\* line 46: shutil.rmtree(output_dir)
Rmtree(i) ==
    /\ job[i].pc = "rmtree"
    /\ IF Exists(fs, Norm(OutputDir(mode, files[i], Member(i))))
       THEN /\ fs' = RmTree(fs, OutputDir(mode, files[i], Member(i)))
            /\ job' = [job EXCEPT ![i].pc = "loop", ![i].idx = @ + 1]
       ELSE /\ job' = Raise(i, "FileNotFoundError")
            /\ UNCHANGED fs
    /\ UNCHANGED <<pattern, mode, jobs, main_pc, files, log, ops, faults>>

\* lines 48-49: tar_file.close() and tar_writer.close()
Close(i) ==
    /\ job[i].pc = "close"
    /\ job' = [job EXCEPT ![i].pc = "done",
                          ![i].reader_open = FALSE,
                          ![i].writer_open = FALSE]
    /\ UNCHANGED <<pattern, mode, jobs, fs, main_pc, files, log, ops, faults>>

\* ----------------------------------------------------------- specification
Next ==
    \/ Main_Setup
    \/ \E i \in DOMAIN job : Seq_Call(i)
    \/ Seq_End
    \/ \E i \in DOMAIN job : Pool_Take(i)
    \/ Pool_Result
    \/ Pool_End
    \/ \E i \in DOMAIN job : Open(i)
    \/ \E i \in DOMAIN job : Loop(i)
    \/ \E i \in DOMAIN job : Extract(i)
    \/ \E i \in DOMAIN job : Capture(i)
    \/ \E i \in DOMAIN job : Read(i)
    \/ \E i \in DOMAIN job : Release(i)
    \/ \E i \in DOMAIN job : Add(i)
    \/ \E i \in DOMAIN job : Rmtree(i)
    \/ \E i \in DOMAIN job : Close(i)

Spec == Init /\ [][Next]_vars

\* a step of main: the setup, the start of a call, the end of the run
DriverStep ==
    \/ Main_Setup
    \/ \E i \in DOMAIN job : Seq_Call(i) \/ Pool_Take(i)
    \/ Seq_End
    \/ Pool_Result
    \/ Pool_End

\* a step of the call convert(files[i], tmp_dir)
JobStep(i) ==
    /\ i \in DOMAIN job
    /\ \/ Open(i) \/ Loop(i) \/ Extract(i) \/ Capture(i) \/ Read(i)
       \/ Release(i) \/ Add(i) \/ Rmtree(i) \/ Close(i)

\* the most files a disk of Init has for the pattern to match
MaxMatched == NumArchives + 1

\* every call that blocks returns and every process gets to run: main and
\* each started call go on as long as they have a step to take
FairSpec ==
    /\ Spec
    /\ WF_vars(DriverStep)
    /\ \A i \in 1..MaxMatched : WF_vars(JobStep(i))

\* ------------------------------------------------------------------ claims
\* a job between extract_file and os.remove holds a staged video
Staging == {"capture", "read", "release"}

\* nothing lies below the scratch root
ScratchEmpty == \A q \in DOMAIN fs : ~Below(tmp_dir, q)

\* C1: two jobs that hold a staged video at the same time hold it at
\* different paths below the scratch root.
C1_StagingPathsDistinct ==
    \A i, j \in DOMAIN job :
        (i # j /\ job[i].pc \in Staging /\ job[j].pc \in Staging)
            => StagingPath(tmp_dir, Member(i)) # StagingPath(tmp_dir, Member(j))

\* C2: once no job is in flight and a job has reached a terminal state, by
\* returning or by raising, nothing is left below the scratch root.
C2_ScratchCleanAfterJob ==
    (/\ \E i \in DOMAIN job : job[i].pc \in Terminal
     /\ \A i \in DOMAIN job : job[i].pc \in Terminal \cup {"queued"})
        => ScratchEmpty

\* C3: when the driver has ended, every matched archive's job has been run to
\* a terminal state, whatever happened to the other jobs.
C3_FailureDoesNotStopOtherJobs ==
    main_pc \in {"done", "raised"} => \A i \in DOMAIN job : job[i].pc \in Terminal

\* C4: a job whose archive cannot be opened logs the error and returns in
\* its failed state without raising, and has done no file operation.
C4_OpenFailureLoggedAndReturned ==
    \A i \in DOMAIN job :
        (job[i].pc \notin {"queued", "open", "killed"} /\ ~Reader_CanOpen(fs, files[i]))
            => /\ job[i].pc = "failed"
               /\ <<"error", "Cannot open", i, 0>> \in log
               /\ \A o \in ops : o[2] # i

\* a member name that ends in the video suffix
EndsInVideoSuffix(f) == Len(f) > 0 /\ f[Len(f)] = ".mp4"

\* the positions of the video members in the listing of job i
VideoMembers(i) ==
    {k \in 1..Len(job[i].file_list) : EndsInVideoSuffix(job[i].file_list[k])}

\* the names of the entries of an archive
EntryNames(f, path) == {f[path][2][k][1] : k \in 1..Len(f[path][2])}

\* C5: a completed job over an archive with N video members leaves N distinct
\* output directories in folder mode, and N distinct entries in the output
\* archive in tar mode.
C5_OneOutputPerVideoMember ==
    \A i \in DOMAIN job :
        job[i].pc = "done" =>
            IF mode = "folder"
            THEN Cardinality({d \in {Norm(OutputDir(mode, files[i], job[i].file_list[k])) :
                                       k \in VideoMembers(i)} : IsKind(fs, d, "dir")})
                   = Cardinality(VideoMembers(i))
            ELSE Cardinality(EntryNames(fs, WriterPath(files[i])))
                   = Cardinality(VideoMembers(i))

\* the names of the files in the output directory of member k of job i
FrameNames(i, k) ==
    {t[1] : t \in TreeFiles(fs, OutputDir(mode, files[i], job[i].file_list[k]))}

\* C6: at every moment the frame files of an output directory are named
\* 0 .. n-1 for some n: no index is skipped.
C6_FrameNumbersContiguous ==
    \A i \in DOMAIN job : \A k \in VideoMembers(i) :
        \E n \in 0..MaxFrames :
            FrameNames(i, k) = {FrameFileName(m) : m \in 0..(n - 1)}

OpenErrorLogged(i, k) == <<"error", "Error opening video stream or file!", i, k>> \in log

\* C7: when the decoder cannot open the staged video of an entry, the error
\* is logged, no frame is written for the entry, the decoder is released,
\* os.remove succeeds and the job goes on after the entry.
C7_UnopenableVideoSkipped ==
    \A i \in DOMAIN job : \A k \in VideoMembers(i) :
        OpenErrorLogged(i, k) =>
            /\ job[i].idx = k => FrameNames(i, k) = {}
            /\ job[i].idx = k => job[i].pc # "read"
            /\ ~(job[i].idx = k /\ job[i].pc = "raised" /\ job[i].err = "FileNotFoundError")

\* the members of job i that are no videos
OtherMembers(i) == {job[i].file_list[k] : k \in 1..Len(job[i].file_list)} \
                   {job[i].file_list[k] : k \in VideoMembers(i)}

\* C8: a member whose name does not end in .mp4 is never extracted, never
\* given to the decoder, gets no output directory and no output entry, and
\* no job raises at it.
C8_NonVideoMembersUntouched ==
    /\ \A o \in ops : EndsInVideoSuffix(o[3])
    /\ \A i \in DOMAIN job :
         /\ \A f \in OtherMembers(i) :
              /\ ~Exists(fs, StagingPath(tmp_dir, f))
              /\ ~Exists(fs, Norm(OutputDir(mode, files[i], f)))
              /\ IsKind(fs, WriterPath(files[i]), "tar")
                   => ArcName(f) \notin EntryNames(fs, WriterPath(files[i]))
         /\ (job[i].pc \in InFlight \ {"open", "loop", "close"} \/ job[i].err \notin {"", "TypeError"})
              => job[i].idx \in VideoMembers(i)

C8_Witness ==
    \E i \in DOMAIN job :
        /\ job[i].pc = "done"
        /\ OtherMembers(i) # {}
        /\ \E k \in VideoMembers(i) : k > 1 /\ <<"extract", i, job[i].file_list[k]>> \in ops

\* what a deterministic decoder yields for a video: its frames, numbered
ExpectedFrames(v) ==
    IF v[3] THEN {<<FrameFileName(m), <<"jpg", <<v[1], m>>>>>> : m \in 0..(v[2] - 1)} ELSE {}

VideoEntries(f, path) == SelectSeq(f[path][2], LAMBDA m : EndsInVideoSuffix(m[1]))

\* the output of the job over files[i] is what the run with one job at a
\* time produces for that archive
OutputAsSequential(i) ==
    IF mode = "folder"
    THEN \A k \in 1..Len(VideoEntries(fs, files[i])) :
            LET m == VideoEntries(fs, files[i])[k]
            IN /\ IsKind(fs, Norm(OutputDir(mode, files[i], m[1])), "dir")
               /\ TreeFiles(fs, OutputDir(mode, files[i], m[1])) = ExpectedFrames(m[2])
    ELSE /\ IsKind(fs, WriterPath(files[i]), "tar")
         /\ fs[WriterPath(files[i])][2] =
              [k \in 1..Len(VideoEntries(fs, files[i])) |->
                 <<ArcName(VideoEntries(fs, files[i])[k][1]),
                   ExpectedFrames(VideoEntries(fs, files[i])[k][2])>>]

AllOpenable == \A i \in DOMAIN files : Reader_CanOpen(fs, files[i])

\* C9: with archives that open and an environment that fails nothing, the
\* run ends with the same output frames whether jobs is 1 or more.
C9_PoolOutputAsSequential ==
    (main_pc \in {"done", "raised"} /\ faults = 0 /\ AllOpenable)
        => \A i \in DOMAIN files : OutputAsSequential(i)

\* the same for the run with one job at a time, where it holds
C9_SequentialOutput == jobs = 1 => C9_PoolOutputAsSequential

NoMatch == main_pc # "start" /\ EndsWith(pattern, ".tar") /\ Len(files) = 0

C11_OutputArchiveExclusive ==
    \A i, j \in DOMAIN job :
        (i # j /\ job[i].writer_open)
            => /\ job[j].writer_open => WriterPath(files[i]) # WriterPath(files[j])
               /\ job[j].reader_open => WriterPath(files[i]) # files[j]

\* after the glob there is one job per matched path, no path twice, and no
\* more jobs in flight than --jobs allows (one when --jobs is 1)
OneJobPerArchive ==
    main_pc \notin {"start", "exit"} =>
        /\ Len(job) = Len(files)
        /\ \A i, j \in DOMAIN files : files[i] = files[j] => i = j
        /\ Cardinality({i \in DOMAIN job : job[i].pc \in InFlight}) <= jobs

\* the jobs are made from exactly the paths the pattern matches; a job is
\* started from the queue only, never goes back to the queue, and does
\* nothing once it has ended
StartedOnce ==
    /\ (main_pc = "start" /\ main_pc' = "run")
          => {files'[i] : i \in DOMAIN files'} = Matches(fs)
    /\ main_pc # "start" =>
          /\ files' = files
          /\ DOMAIN job' = DOMAIN job
          /\ \A i \in DOMAIN job :
                /\ job[i].pc # "queued" => job'[i].pc # "queued"
                /\ job'[i].pc = "open" => job[i].pc \in {"queued", "open"}
                /\ job[i].pc \in Terminal \cup {"killed"} => job'[i] = job[i]

\* C12: every matched path becomes exactly one job, and when the driver has
\* ended every job has been run, once and to its end.
C12_EveryJobRunOnce ==
    /\ OneJobPerArchive
    /\ main_pc \in {"done", "raised"}
          => \A i \in DOMAIN job : job[i].pc \notin {"queued", "killed"}

\* the part of C12 that holds: one job per matched path, started at most
\* once and never again, and at most --jobs jobs in flight
C12_AtMostOncePerArchive == []OneJobPerArchive /\ [][StartedOnce]_vars

\* C13: a job that has ended on its success path has closed its input
\* archive, in folder mode as in tar mode, and its output archive.
C13_ArchivesClosedOnSuccess ==
    \A i \in DOMAIN job :
        job[i].pc = "done" => ~job[i].reader_open /\ ~job[i].writer_open

\* the same for tar mode alone, where it holds
C13_ClosedInTarMode == mode = "tar" => C13_ArchivesClosedOnSuccess

\* the exceptions of staging (extract_file) and of decoding (video.read)
EntryErrors == {"ExtractError", "cv2.error"}

\* C14: a failure of staging or decoding at one entry does not end the job:
\* no job has stopped at an entry with such an error.
C14_EntryFailureKeepsJobRunning ==
    \A i \in DOMAIN job : ~(job[i].pc = "raised" /\ job[i].err \in EntryErrors)

\* the frames the job over files[i] has put out for the n-th video member of
\* its archive: the files of the member's output directory in folder mode,
\* the files held by the n-th entry of the output archive in tar mode
MemberFrames(i, n) ==
    IF mode = "folder"
    THEN TreeFiles(fs, OutputDir("folder", files[i], VideoEntries(fs, files[i])[n][1]))
    ELSE IF IsKind(fs, WriterPath(files[i]), "tar") /\ n <= Len(fs[WriterPath(files[i])][2])
    THEN fs[WriterPath(files[i])][2][n][2]
    ELSE {}

\* C15: with an environment that fails nothing, a completed job has put out,
\* for every video member, the frames the decoder yields for that member, by
\* name and content, in folder mode and in tar mode alike: the two modes
\* produce the same frames per member.
C15_ModesProduceSameFrames ==
    \A i \in DOMAIN job :
        (job[i].pc = "done" /\ faults = 0) =>
            \A n \in 1..Len(VideoEntries(fs, files[i])) :
                MemberFrames(i, n) = ExpectedFrames(VideoEntries(fs, files[i])[n][2])

\* the same for the run with one job at a time, where it holds
C15_SequentialModesAgree == jobs = 1 => C15_ModesProduceSameFrames

\* the paths job i writes to or deletes where it is: the output archive, and
\* at a video member the staged file, the output directory and the frame file
WrittenPaths(i) ==
    (IF mode = "tar" THEN {WriterPath(files[i])} ELSE {})
    \cup (IF job[i].pc \in {"extract", "capture", "read", "release", "add", "rmtree"}
          THEN {StagingPath(tmp_dir, Member(i)),
                Norm(OutputDir(mode, files[i], Member(i))),
                FramePath(OutputDir(mode, files[i], Member(i)), job[i].frame_id)}
          ELSE {})

\* none of them is the input archive or a directory above it
InputNotWritten ==
    \A i \in DOMAIN job : \A q \in WrittenPaths(i) :
        q # files[i] /\ ~Below(q, files[i])

\* a step of job i leaves the input archive of job i as it is
InputKept ==
    \A i \in DOMAIN job :
        (i \in DOMAIN job' /\ job'[i] # job[i])
            => files[i] \in DOMAIN fs' /\ fs'[files[i]] = fs[files[i]]

\* C16: no path a job writes to or deletes is the path of the input archive
\* it converts, and no step of the job changes that archive.
C16_InputArchiveKept == []InputNotWritten /\ [][InputKept]_vars

\* a job has converted a video in tar mode, to the end
C16_Witness ==
    \E i \in DOMAIN job :
        /\ job[i].pc = "done"
        /\ mode = "tar"
        /\ \E o \in ops : o[1] = "add" /\ o[2] = i
        /\ IsKind(fs, files[i], "tar")

\* C17: while a job has a video open, the number of frame files in the
\* video's output directory is the number of successful reads so far, so at
\* the first unsuccessful read it is the number of successful reads.
C17_FrameCountEqualsReads ==
    \A i \in DOMAIN job :
        (job[i].pc \in {"read", "release"} /\ job[i].video # NoVideo)
            => Cardinality(FrameNames(i, job[i].idx)) = job[i].frame_id

\* the same with an environment that fails nothing, where it holds
C17_CountWithoutFaults == faults = 0 => C17_FrameCountEqualsReads

\* the staged files of job i that are on disk
StagedFiles(i) ==
    {k \in VideoMembers(i) : Exists(fs, StagingPath(tmp_dir, job[i].file_list[k]))}

\* C18: a job holds a staged video only between staging it and deleting it:
\* when the job is elsewhere, or has ended on any path, and no other job is
\* between the two, none of its staged files is on disk.
C18_StagedVideoDeleted ==
    \A i \in DOMAIN job :
        (/\ job[i].pc \notin Staging
         /\ \A j \in DOMAIN job : j # i => job[j].pc \notin Staging)
            => StagedFiles(i) = {}

\* the same for the jobs that have not raised, where it holds
C18_DeletedUnlessRaised ==
    \A i \in DOMAIN job :
        (/\ job[i].pc \notin Staging
         /\ \A j \in DOMAIN job : job[j].pc \notin Staging \cup {"raised", "killed"})
            => StagedFiles(i) = {}

\* the <stem>_tmp directory of job i and what lies below it
TempDirs(i) ==
    {q \in DOMAIN fs : IsPrefix(Replace(files[i], ".tar", <<"_tmp">>), q)}

\* C19: in tar mode, when a job has ended, on any path, no temporary frame
\* directory of the job is left, the <stem>_tmp directory included.
C19_NoTempDirAfterJob ==
    mode = "tar" =>
        \A i \in DOMAIN job : job[i].pc \in Terminal => TempDirs(i) = {}

\* what holds: between two entries and after the success path only the empty
\* <stem>_tmp directory is left, the frame directory having been deleted
\* after it was added to the output archive
C19_OnlyParentLeft ==
    mode = "tar" =>
        \A i \in DOMAIN job :
            job[i].pc \in {"loop", "close", "done"}
                => TempDirs(i) \subseteq {Replace(files[i], ".tar", <<"_tmp">>)}

\* C20: unless the environment fails an operation, every job eventually
\* reaches done or failed, and the driver comes to its end.
C20_EveryJobEndsDoneOrFailed ==
    <>(\/ faults > 0
       \/ /\ main_pc \in {"done", "exit"}
          /\ \A i \in DOMAIN job : job[i].pc \in Returned)

\* what holds: the driver always comes to an end, be it by an exception, and
\* no job is then left running
C20_DriverTerminates ==
    <>[](/\ main_pc \in {"done", "exit", "raised"}
         /\ \A i \in DOMAIN job : job[i].pc \notin InFlight)

====
